---- MODULE Spec2Model ----
(***************************************************************************)
(* open-stock: the transaction handlers (src/methods/transaction/          *)
(* handlers.rs) and the session permission gate (src/methods/common.rs).   *)
(*                                                                         *)
(* Each HTTP request is a process: it is issued (the handler runs up to    *)
(* its first call into the persistence layer), then performs one           *)
(* persistence call per step, then returns.  Requests interleave at the    *)
(* persistence calls, which are the handler's await points.                *)
(*                                                                         *)
(* Money (f32 in the source) is counted in hundredths of a currency unit;  *)
(* the inputs are chosen so that every discount is exact in that unit.     *)
(***************************************************************************)
EXTENDS Integers, Sequences, FiniteSets, TLC

\* ------------------------------------------------------------------ bounds
MaxReq == 2           \* requests issued in one behaviour
MaxLines == 3         \* line items of one transaction input, over all its orders
InitialStock == 5     \* quantity of every (store, variant) before any request
MaxLevel == 2         \* entries of the privilege list of a session drawn at large
MaxPrice == 3         \* the highest unit cost, in whole currency units
MaxQuantity == 2      \* the highest quantity of a line item drawn at large

\* 0.1 currency units, in hundredths (handlers.rs, create: `.abs() > 0.1`)
Tolerance == 10

Reqs == 1 .. MaxReq
TxnIds == 1 .. MaxReq

Max(a, b) == IF a >= b THEN a ELSE b

Abs(x) == IF x >= 0 THEN x ELSE 0 - x

\* Option<T>: None is <<>>, Some(x) is <<x>>
None == << >>

Some(x) == << x >>

\* ------------------------------------------------------- sessions, common.rs
Access(a, n) == [action |-> a, authority |-> n]

\* Iterator::find: the first entry of `level` whose action is `permission`
RECURSIVE find(_, _)
find(level, permission) ==
    IF level = << >> THEN None
    ELSE IF Head(level).action = permission THEN Some(Head(level))
    ELSE find(Tail(level), permission)

has_permission_nonneg(session, permission) ==
    LET found == find(session.level, permission)
        action == IF found = None THEN Access(permission, 0) ELSE found[1]
    IN  IF action.action = "GenerateTemplateContent" THEN TRUE
        ELSE action.authority >= 0

\* Session::has_permission
has_permission(session, permission) ==
    LET found == find(session.level, permission)
        action == IF found = None THEN Access(permission, 0) ELSE found[1]
    IN  IF action.action = "GenerateTemplateContent" THEN TRUE
        ELSE action.authority >= 1

\* Action, as far as the transaction handlers name it
Actions ==
    {"CreateTransaction", "ModifyTransaction", "DeleteTransaction",
     "GenerateTemplateContent"}

Authorities == 0 .. 2

\* every privilege list (employee.level) of at most n entries
Levels(n) ==
    UNION { [1 .. k -> { Access(a, x) : a \in Actions, x \in Authorities }]
            : k \in 0 .. n }

\* The sessions table the cookie is looked up in (read-only to the handlers):
\* each key names the privilege list (employee.level) of its employee.
SessionTable ==
    [ admin  |-> [level |-> << Access("CreateTransaction", 1),
                               Access("ModifyTransaction", 1),
                               Access("DeleteTransaction", 2) >>],
      clerk  |-> [level |-> << Access("CreateTransaction", 1),
                               Access("ModifyTransaction", 0) >>],
      shadow |-> [level |-> << Access("CreateTransaction", 0),
                               Access("CreateTransaction", 1),
                               Access("DeleteTransaction", 0),
                               Access("DeleteTransaction", 1) >>],
      nobody |-> [level |-> << >>] ]

\* What a request carries as its `key` cookie: a key with no session record
\* (or no cookie at all), or the key of a session.
Cookies == {"absent"} \cup DOMAIN SessionTable

\* cookie_status_wrapper: Some(session), or None for custom_unauthorized
cookie_status_wrapper(cookie) ==
    IF cookie \in DOMAIN SessionTable THEN Some(SessionTable[cookie]) ELSE None

\* check_permissions!(session, permission): TRUE when the handler goes on
check_permissions(session, permission) == has_permission(session, permission)

\* ------------------------------------------------ transaction data, order.rs
Percentage(k) == [kind |-> "Percentage", value |-> k]

Fixed(f) == [kind |-> "Fixed", value |-> f]

\* a variant that takes a fixed amount off without a floor
apply_discount_unclamped(discount, cost) ==
    IF discount.kind = "Percentage"
    THEN (cost * (100 - discount.value)) \div 100
    ELSE cost - discount.value

\* apply_discount(discount, cost)
apply_discount(discount, cost) ==
    IF discount.kind = "Percentage"
    THEN (cost * (100 - discount.value)) \div 100
    ELSE Max(cost - discount.value, 0)

\* Location: the two stores of the model
LocA == [store_code |-> "A", store_id |-> "1"]

LocB == [store_code |-> "B", store_id |-> "2"]

StoreIds == {LocA.store_id, LocB.store_id}

VariantCodes == {"v1", "v2"}

TransactionTypes == {"Sale", "Return"}

\* OrderStatus, with the payload of Transit, Processing and Failed left out
OrderStatuses == {"Queued", "Transit", "Processing", "InStore", "Fulfilled", "Failed"}

PickStatuses == {"Pending", "Processing", "Picked", "Uncertain", "Failed"}

\* ProductPurchase: the line items a request may carry
ItemChoices ==
    { [id |-> "p2", product_code |-> "v2", product_sku |-> "s2", quantity |-> 2,
       product_cost |-> 500, discount |-> Fixed(300), iid |-> "i1",
       status |-> "Pending"],
      [id |-> "p3", product_code |-> "v1", product_sku |-> "s1", quantity |-> 3,
       product_cost |-> 1000, discount |-> Percentage(50), iid |-> "i1",
       status |-> "Pending"] }

\* Order, without its products: an order of store A shipped to B, one of B to A
OrderHeads ==
    { [reference |-> "r1", origin |-> LocA, destination |-> LocB,
       discount |-> Percentage(10), status |-> "Queued",
       status_history |-> << [date |-> 0, status |-> "Queued"] >>],
      [reference |-> "r2", origin |-> LocB, destination |-> LocA,
       discount |-> Fixed(200), status |-> "Queued",
       status_history |-> << [date |-> 0, status |-> "Queued"] >>] }

Order(head, products) ==
    [reference |-> head.reference, origin |-> head.origin,
     destination |-> head.destination, discount |-> head.discount,
     status |-> head.status, status_history |-> head.status_history,
     products |-> products]

\* the orders of exactly k line items
OrdersWith(k) ==
    { Order(h, ps) : h \in OrderHeads, ps \in [1 .. k -> ItemChoices] }

\* the order lists of at most n line items in all
RECURSIVE OrderListsWithin(_)
OrderListsWithin(n) ==
    {<< >>} \cup
    UNION { { <<o>> \o rest : o \in OrdersWith(k), rest \in OrderListsWithin(n - k) }
            : k \in 1 .. n }

Payment(n) == [amount |-> [quantity |-> n]]

\* ------------------------------------------- create: the pure part, handlers.rs
push_intent_destination(order, product, transaction_type) ==
    [variant_code |-> product.product_code,
     product_sku |-> product.product_sku,
     transaction_store_code |-> order.destination.store_code,
     transaction_store_id |-> order.destination.store_id,
     transaction_type |-> transaction_type,
     quantity_to_transact |-> product.quantity]

push_intent_negated(order, product, transaction_type) ==
    [variant_code |-> product.product_code,
     product_sku |-> product.product_sku,
     transaction_store_code |-> order.origin.store_code,
     transaction_store_id |-> order.origin.store_id,
     transaction_type |-> transaction_type,
     quantity_to_transact |->
        IF transaction_type = "Sale" THEN 0 - product.quantity ELSE product.quantity]

\* the QuantityAlterationIntent pushed for one product of one order
push_intent(order, product, transaction_type) ==
    [variant_code |-> product.product_code,
     product_sku |-> product.product_sku,
     transaction_store_code |-> order.origin.store_code,
     transaction_store_id |-> order.origin.store_id,
     transaction_type |-> transaction_type,
     quantity_to_transact |-> product.quantity]

\* order.products.iter().for_each(...)
RECURSIVE for_each_product(_, _, _, _)
for_each_product(intents, order, products, transaction_type) ==
    IF products = << >> THEN intents
    ELSE for_each_product(
            Append(intents, push_intent(order, Head(products), transaction_type)),
            order, Tail(products), transaction_type)

\* new_transaction.products.iter().for_each(...)
RECURSIVE for_each_order(_, _, _)
for_each_order(intents, orders, transaction_type) ==
    IF orders = << >> THEN intents
    ELSE for_each_order(
            for_each_product(intents, Head(orders), Head(orders).products,
                             transaction_type),
            Tail(orders), transaction_type)

quantity_alteration_intents(new_transaction) ==
    for_each_order(<< >>, new_transaction.products, new_transaction.transaction_type)

\* .map(|payment| payment.amount.quantity).sum()
RECURSIVE sum_payments(_)
sum_payments(payment) ==
    IF payment = << >> THEN 0
    ELSE Head(payment).amount.quantity + sum_payments(Tail(payment))

total_paid(new_transaction) == sum_payments(new_transaction.payment)

\* .map(|product| apply_discount(product.discount, product_cost * quantity)).sum()
RECURSIVE sum_products(_)
sum_products(products) ==
    IF products = << >> THEN 0
    ELSE apply_discount(Head(products).discount,
                        Head(products).product_cost * Head(products).quantity)
         + sum_products(Tail(products))

\* a slip that discounts the order once per line item and not on the subtotal
RECURSIVE sum_orders_per_line(_)
sum_orders_per_line(orders) ==
    IF orders = << >> THEN 0
    ELSE LET RECURSIVE lines(_)
             lines(ps) ==
                IF ps = << >> THEN 0
                ELSE apply_discount(Head(orders).discount,
                        apply_discount(Head(ps).discount,
                                       Head(ps).product_cost * Head(ps).quantity))
                     + lines(Tail(ps))
         IN  lines(Head(orders).products) + sum_orders_per_line(Tail(orders))

\* .map(|order| apply_discount(order.discount, <sum of its products>)).sum()
RECURSIVE sum_orders(_)
sum_orders(orders) ==
    IF orders = << >> THEN 0
    ELSE apply_discount(Head(orders).discount, sum_products(Head(orders).products))
         + sum_orders(Tail(orders))

total_cost_per_line(new_transaction) == sum_orders_per_line(new_transaction.products)

total_cost(new_transaction) == sum_orders(new_transaction.products)

payment_mismatch_inclusive(paid, cost) == Abs(paid - cost) >= Tolerance

payment_mismatch_short(paid, cost) == cost - paid > Tolerance

\* (total_paid - total_cost).abs() > 0.1
payment_mismatch(paid, cost) == Abs(paid - cost) > Tolerance

\* ------------------------------------------------------------ request inputs
\* The payments of a request whose orders cost `cost`, `off` away from it:
\* one payment when short or exact, two when over.
PaymentsFor(cost, off) ==
    IF off <= 0 THEN << Payment(cost + off) >>
    ELSE << Payment(cost \div 2), Payment(cost - (cost \div 2) + off) >>

\* TransactionInit values: the orders, each transaction type, each offset
TransactionInits(types, orderLists, offsets) ==
    UNION { { [transaction_type |-> ty, products |-> os,
                payment |-> PaymentsFor(sum_orders(os), off)]
              : ty \in types,
                off \in {d \in offsets : sum_orders(os) + d >= 0} }
            : os \in orderLists }

Offsets == {0 - (Tolerance + 1), 0 - Tolerance, 0, Tolerance, Tolerance + 1}

\* every input of at most MaxLines line items
InputsWithin(n) == TransactionInits(TransactionTypes, OrderListsWithin(n), Offsets)

\* what the concurrent requests draw from: a sale of one order of two lines,
\* paid exactly and paid too much
HeadOf(reference) == CHOOSE h \in OrderHeads : h.reference = reference

ItemOf(id) == CHOOSE i \in ItemChoices : i.id = id

Inputs ==
    TransactionInits({"Sale"},
                     { << Order(HeadOf("r1"), << ItemOf("p2"), ItemOf("p3") >>) >> },
                     {0, Tolerance + 1})

\* the arguments the concurrent requests draw from: a reference some order has
\* and one no order has, a status string the handler knows and one it does not
References == {"r1", "r9"}

RequestedStatuses == {"Fulfilled"}

ProductIds == {"p3"}

InstanceIds == {"i1"}

StatusStrings == {"picked", "shipped"}

\* --------------------------------------------------------------------- state
VARIABLES
    transactions,   \* the Transactions table: id -> None or Some(transaction)
    stock,          \* the quantity of each <<store id, variant code>>
    next_id,        \* the ids handed out so far are 1 .. next_id - 1
    clock,          \* Utc::now(), as a count of the status changes made
    pc,             \* where each request's handler stands
    frame,          \* the handler's locals while the request is in flight
    result,         \* what the request that returned last returned
    given           \* the one request of the single-request specification

vars == << transactions, stock, next_id, clock, pc, frame, result, given >>

NoFrame ==
    [new_transaction |-> None, intents |-> << >>, outcomes |-> << >>,
     last_insert_id |-> 0, total_paid |-> 0, total_cost |-> 0,
     refer |-> "", id |-> 0, status |-> "", pid |-> "", iid |-> ""]

NoResult == [op |-> "", kind |-> "", value |-> None]

NoGiven == [cookie |-> "absent", input |-> None]

Init ==
    /\ transactions = [id \in TxnIds |-> None]
    /\ stock = [key \in StoreIds \X VariantCodes |-> InitialStock]
    /\ next_id = 1
    /\ clock = 0
    /\ pc = [p \in Reqs |-> "idle"]
    /\ frame = [p \in Reqs |-> NoFrame]
    /\ result = NoResult
    /\ given = NoGiven

\* the handler returns: Ok(Json(value)) or Err(kind)
Return(p, op, kind, value) ==
    /\ pc' = [pc EXCEPT ![p] = "done"]
    /\ frame' = [frame EXCEPT ![p] = NoFrame]
    /\ result' = [op |-> op, kind |-> kind, value |-> value]

\* the handler goes on to its next persistence call
Goto(p, label, locals) ==
    /\ pc' = [pc EXCEPT ![p] = label]
    /\ frame' = [frame EXCEPT ![p] = locals]
    /\ UNCHANGED result

\* ------------------------------------------- the persistence layer's operations
Exists(id) == id \in TxnIds /\ transactions[id] # None

\* Transaction::insert: the record stored under a fresh id
Transaction_insert(id, new_transaction) ==
    [id |-> id, transaction_type |-> new_transaction.transaction_type,
     products |-> new_transaction.products, payment |-> new_transaction.payment]

\* Transaction::fetch_by_ref: the ids of the transactions holding an order of
\* that reference
Transaction_fetch_by_ref(refer) ==
    { id \in TxnIds : Exists(id) /\
        \E i \in DOMAIN transactions[id][1].products :
            transactions[id][1].products[i].reference = refer }

\* the signed change of quantity an intent stands for
Delta(intent) ==
    IF intent.transaction_type = "Sale" THEN 0 - intent.quantity_to_transact
    ELSE intent.quantity_to_transact

\* Transaction::process_intents, one intent: the stock after it is applied
process_intent(intent) ==
    [stock EXCEPT ![<< intent.transaction_store_id, intent.variant_code >>] =
        @ + Delta(intent)]

\* -------------------------------------------------------- create, handlers.rs
create_after_insert_always(inserted) == "process_intents"

create_after_insert_skip(inserted) == IF inserted THEN "fetch_by_id" ELSE "input_error"

\* match Transaction::insert(..).await { Ok(data) => ..., Err(_) => input_error }
create_after_insert(inserted) == IF inserted THEN "process_intents" ELSE "input_error"

\* create up to its first persistence call: the session, the permission, the
\* intents, the totals and the payment check
create_call(p, cookie, new_transaction) ==
    /\ pc[p] = "idle"
    /\ UNCHANGED << transactions, stock, next_id, clock, given >>
    /\ LET session == cookie_status_wrapper(cookie)
           intents == quantity_alteration_intents(new_transaction)
           paid == total_paid(new_transaction)
           cost == total_cost(new_transaction)
       IN  IF session = None
           THEN Return(p, "create", "Unauthorized", None)
           ELSE IF ~check_permissions(session[1], "CreateTransaction")
           THEN Return(p, "create", "Unauthorized", None)
           ELSE IF payment_mismatch(paid, cost)
           THEN Return(p, "create", "StandardError", None)
           ELSE Goto(p, "insert",
                     [NoFrame EXCEPT !.new_transaction = Some(new_transaction),
                                     !.intents = intents,
                                     !.total_paid = paid, !.total_cost = cost])

\* a request to create arrives
create(p) == \E cookie \in Cookies, input \in Inputs : create_call(p, cookie, input)

\* Transaction::insert(new_transaction, session, db).await, which answers
\* Ok (inserted) or Err
create_insert_answer(p, inserted) ==
    /\ pc[p] = "insert"
    /\ UNCHANGED << stock, clock, given >>
    /\ IF inserted
       THEN /\ transactions' = [transactions EXCEPT ![next_id] =
                    Some(Transaction_insert(next_id, frame[p].new_transaction[1]))]
            /\ next_id' = next_id + 1
       ELSE UNCHANGED << transactions, next_id >>
    /\ IF create_after_insert(inserted) = "input_error"
       THEN Return(p, "create", "InputError", None)
       ELSE Goto(p, create_after_insert(inserted),
                 [frame[p] EXCEPT !.last_insert_id = IF inserted THEN next_id ELSE 0])

create_insert(p) == \E inserted \in BOOLEAN : create_insert_answer(p, inserted)

\* a variant that writes the quantity it computed from the stock as it was when
\* the server started
create_process_intents_answer_stale(p, applied) ==
    /\ pc[p] = "process_intents"
    /\ UNCHANGED << transactions, next_id, clock, given >>
    /\ IF Len(frame[p].outcomes) = Len(frame[p].intents)
       THEN /\ Goto(p, "fetch_by_id", frame[p])
            /\ UNCHANGED stock
       ELSE LET intent == frame[p].intents[Len(frame[p].outcomes) + 1]
                key == << intent.transaction_store_id, intent.variant_code >>
            IN  /\ stock' = IF applied
                             THEN [stock EXCEPT ![key] = InitialStock + Delta(intent)]
                             ELSE stock
                /\ Goto(p, "process_intents",
                        [frame[p] EXCEPT !.outcomes =
                            Append(@, IF applied THEN "applied" ELSE "failed")])

\* Transaction::process_intents(session, db, intents).await; its value is dropped.
\* One intent is applied per step, and each application succeeds or fails.
create_process_intents_answer(p, applied) ==
    /\ pc[p] = "process_intents"
    /\ UNCHANGED << transactions, next_id, clock, given >>
    /\ IF Len(frame[p].outcomes) = Len(frame[p].intents)
       THEN /\ Goto(p, "fetch_by_id", frame[p])
            /\ UNCHANGED stock
       ELSE LET intent == frame[p].intents[Len(frame[p].outcomes) + 1]
            IN  /\ stock' = IF applied THEN process_intent(intent) ELSE stock
                /\ Goto(p, "process_intents",
                        [frame[p] EXCEPT !.outcomes =
                            Append(@, IF applied THEN "applied" ELSE "failed")])

create_process_intents(p) ==
    \E applied \in BOOLEAN : create_process_intents_answer(p, applied)

\* a variant that takes the record back when the re-fetch fails
create_fetch_by_id_answer_rollback(p, fetched) ==
    /\ pc[p] = "fetch_by_id"
    /\ UNCHANGED << stock, next_id, clock, given >>
    /\ IF fetched /\ Exists(frame[p].last_insert_id)
       THEN /\ UNCHANGED transactions
            /\ Return(p, "create", "Ok", transactions[frame[p].last_insert_id])
       ELSE /\ transactions' = [transactions EXCEPT ![frame[p].last_insert_id] = None]
            /\ Return(p, "create", "DbError", None)

\* match Transaction::fetch_by_id(&data.last_insert_id, ..).await, which answers
\* Ok (fetched, and the record is there) or Err
create_fetch_by_id_answer(p, fetched) ==
    /\ pc[p] = "fetch_by_id"
    /\ UNCHANGED << transactions, stock, next_id, clock, given >>
    /\ IF fetched /\ Exists(frame[p].last_insert_id)
       THEN Return(p, "create", "Ok", transactions[frame[p].last_insert_id])
       ELSE Return(p, "create", "DbError", None)

create_fetch_by_id(p) == \E fetched \in BOOLEAN : create_fetch_by_id_answer(p, fetched)

\* -------------------------------------------------------- update, handlers.rs
\* TransactionInput values: a body the payment of which does not match
UpdateInputs ==
    TransactionInits({"Return"}, { << Order(HeadOf("r1"), << ItemOf("p2") >>) >> },
                     {Tolerance + 1})

update_call(p, cookie, id, input_data) ==
    /\ pc[p] = "idle"
    /\ UNCHANGED << transactions, stock, next_id, clock, given >>
    /\ LET session == cookie_status_wrapper(cookie)
       IN  IF session = None
           THEN Return(p, "update", "Unauthorized", None)
           ELSE IF ~check_permissions(session[1], "ModifyTransaction")
           THEN Return(p, "update", "Unauthorized", None)
           ELSE Goto(p, "update",
                     [NoFrame EXCEPT !.new_transaction = Some(input_data), !.id = id])

update(p) ==
    \E cookie \in Cookies, id \in TxnIds, input \in UpdateInputs :
        update_call(p, cookie, id, input)

\* match Transaction::update(input_data, session, id, db).await
update_exec(p) ==
    /\ pc[p] = "update"
    /\ UNCHANGED << stock, next_id, clock, given >>
    /\ \E updated \in BOOLEAN :
        IF updated /\ Exists(frame[p].id)
        THEN LET res == Transaction_insert(frame[p].id, frame[p].new_transaction[1])
             IN  /\ transactions' = [transactions EXCEPT ![frame[p].id] = Some(res)]
                 /\ Return(p, "update", "Ok", Some(res))
        ELSE /\ UNCHANGED transactions
             /\ Return(p, "update", "InputError", None)

\* ------------------------------------------- update_order_status, handlers.rs
\* a variant that keeps the latest entry alone
Transaction_update_order_status_latest(transaction, refer, status, date) ==
    [transaction EXCEPT !.products =
        [i \in DOMAIN @ |->
            IF @[i].reference = refer
            THEN [@[i] EXCEPT !.status = status,
                              !.status_history = << [date |-> date, status |-> status] >>]
            ELSE @[i]]]

\* Transaction::update_order_status: the orders of that reference take the
\* status, and one entry is pushed on their history
Transaction_update_order_status(transaction, refer, status, date) ==
    [transaction EXCEPT !.products =
        [i \in DOMAIN @ |->
            IF @[i].reference = refer
            THEN [@[i] EXCEPT !.status = status,
                              !.status_history =
                                  Append(@, [date |-> date, status |-> status])]
            ELSE @[i]]]

HasOrder(transaction, refer) ==
    \E i \in DOMAIN transaction.products : transaction.products[i].reference = refer

update_order_status_call(p, cookie, refer, status) ==
    /\ pc[p] = "idle"
    /\ UNCHANGED << transactions, stock, next_id, clock, given >>
    /\ LET session == cookie_status_wrapper(cookie)
       IN  IF session = None
           THEN Return(p, "update_order_status", "Unauthorized", None)
           ELSE IF ~check_permissions(session[1], "ModifyTransaction")
           THEN Return(p, "update_order_status", "Unauthorized", None)
           ELSE Goto(p, "order_fetch_by_ref",
                     [NoFrame EXCEPT !.refer = refer, !.status = status])

update_order_status(p) ==
    \E cookie \in Cookies, refer \in References, status \in RequestedStatuses :
        update_order_status_call(p, cookie, refer, status)

\* Transaction::fetch_by_ref(refer, ..).await.unwrap(); tsn.get(0).unwrap().id:
\* either unwrap panics, on Err and on an empty list.  The list comes in the
\* order the database returns it in, so any match may be the first.
update_order_status_fetch(p) ==
    /\ pc[p] = "order_fetch_by_ref"
    /\ UNCHANGED << transactions, stock, next_id, clock, given >>
    /\ \E fetched \in BOOLEAN :
        LET tsn == Transaction_fetch_by_ref(frame[p].refer)
        IN  IF ~fetched \/ tsn = {}
            THEN Return(p, "update_order_status", "Panic", None)
            ELSE \E id \in tsn :
                    Goto(p, "update_order_status", [frame[p] EXCEPT !.id = id])

\* a variant that sets the status in every transaction holding the reference
update_order_status_exec_every(p) ==
    /\ pc[p] = "update_order_status"
    /\ UNCHANGED << stock, next_id, given >>
    /\ \E updated \in BOOLEAN :
        IF /\ updated
           /\ Exists(frame[p].id)
           /\ HasOrder(transactions[frame[p].id][1], frame[p].refer)
        THEN LET res == Transaction_update_order_status(
                            transactions[frame[p].id][1], frame[p].refer,
                            frame[p].status, clock + 1)
             IN  /\ transactions' =
                        [id \in TxnIds |->
                            IF Exists(id) /\ HasOrder(transactions[id][1], frame[p].refer)
                            THEN Some(Transaction_update_order_status(
                                          transactions[id][1], frame[p].refer,
                                          frame[p].status, clock + 1))
                            ELSE transactions[id]]
                 /\ clock' = clock + 1
                 /\ Return(p, "update_order_status", "Ok", Some(res))
        ELSE /\ UNCHANGED << transactions, clock >>
             /\ Return(p, "update_order_status", "InputError", None)

\* a variant that refuses to leave Fulfilled and Failed
update_order_status_exec_guarded(p) ==
    /\ pc[p] = "update_order_status"
    /\ UNCHANGED << stock, next_id, given >>
    /\ \E updated \in BOOLEAN :
        IF /\ updated
           /\ Exists(frame[p].id)
           /\ HasOrder(transactions[frame[p].id][1], frame[p].refer)
           /\ \A o \in DOMAIN transactions[frame[p].id][1].products :
                  transactions[frame[p].id][1].products[o].reference = frame[p].refer
                  => transactions[frame[p].id][1].products[o].status
                         \notin {"Fulfilled", "Failed"}
        THEN LET res == Transaction_update_order_status(
                            transactions[frame[p].id][1], frame[p].refer,
                            frame[p].status, clock + 1)
             IN  /\ transactions' = [transactions EXCEPT ![frame[p].id] = Some(res)]
                 /\ clock' = clock + 1
                 /\ Return(p, "update_order_status", "Ok", Some(res))
        ELSE /\ UNCHANGED << transactions, clock >>
             /\ Return(p, "update_order_status", "InputError", None)

\* match Transaction::update_order_status(id, refer, status, session, db).await
update_order_status_exec(p) ==
    /\ pc[p] = "update_order_status"
    /\ UNCHANGED << stock, next_id, given >>
    /\ \E updated \in BOOLEAN :
        IF /\ updated
           /\ Exists(frame[p].id)
           /\ HasOrder(transactions[frame[p].id][1], frame[p].refer)
        THEN LET res == Transaction_update_order_status(
                            transactions[frame[p].id][1], frame[p].refer,
                            frame[p].status, clock + 1)
             IN  /\ transactions' = [transactions EXCEPT ![frame[p].id] = Some(res)]
                 /\ clock' = clock + 1
                 /\ Return(p, "update_order_status", "Ok", Some(res))
        ELSE /\ UNCHANGED << transactions, clock >>
             /\ Return(p, "update_order_status", "InputError", None)

\* ----------------------------------------- update_product_status, handlers.rs
\* a variant that takes an unknown string for pending
product_status_default(status) ==
    CASE status = "picked" -> Some("Picked")
      [] status = "pending" -> Some("Pending")
      [] status = "failed" -> Some("Failed")
      [] status = "uncertain" -> Some("Uncertain")
      [] status = "processing" -> Some("Processing")
      [] OTHER -> Some("Pending")

\* match status { "picked" => PickStatus::Picked, ..., _ => return input_error }
product_status(status) ==
    CASE status = "picked" -> Some("Picked")
      [] status = "pending" -> Some("Pending")
      [] status = "failed" -> Some("Failed")
      [] status = "uncertain" -> Some("Uncertain")
      [] status = "processing" -> Some("Processing")
      [] OTHER -> None

IsItem(order, i, refer, pid, iid) ==
    /\ order.reference = refer
    /\ order.products[i].id = pid
    /\ order.products[i].iid = iid

HasItem(transaction, refer, pid, iid) ==
    \E o \in DOMAIN transaction.products :
        \E i \in DOMAIN transaction.products[o].products :
            IsItem(transaction.products[o], i, refer, pid, iid)

\* Transaction::update_product_status: the line item takes the status
Transaction_update_product_status(transaction, refer, pid, iid, status) ==
    [transaction EXCEPT !.products =
        [o \in DOMAIN @ |->
            [@[o] EXCEPT !.products =
                [i \in DOMAIN @ |->
                    IF IsItem(transaction.products[o], i, refer, pid, iid)
                    THEN [@[i] EXCEPT !.status = status]
                    ELSE @[i]]]]]

update_product_status_call(p, cookie, refer, pid, iid, status) ==
    /\ pc[p] = "idle"
    /\ UNCHANGED << transactions, stock, next_id, clock, given >>
    /\ LET session == cookie_status_wrapper(cookie)
       IN  IF session = None
           THEN Return(p, "update_product_status", "Unauthorized", None)
           ELSE IF ~check_permissions(session[1], "ModifyTransaction")
           THEN Return(p, "update_product_status", "Unauthorized", None)
           ELSE Goto(p, "product_fetch_by_ref",
                     [NoFrame EXCEPT !.refer = refer, !.pid = pid, !.iid = iid,
                                     !.status = status])

update_product_status(p) ==
    \E cookie \in Cookies, refer \in References, pid \in ProductIds,
       iid \in InstanceIds, status \in StatusStrings :
        update_product_status_call(p, cookie, refer, pid, iid, status)

\* fetch_by_ref(..).await.unwrap(); tsn.get(0).unwrap().id; then the status string
\* is matched, and an unknown one returns input_error
update_product_status_fetch(p) ==
    /\ pc[p] = "product_fetch_by_ref"
    /\ UNCHANGED << transactions, stock, next_id, clock, given >>
    /\ \E fetched \in BOOLEAN :
        LET tsn == Transaction_fetch_by_ref(frame[p].refer)
        IN  IF ~fetched \/ tsn = {}
            THEN Return(p, "update_product_status", "Panic", None)
            ELSE IF product_status(frame[p].status) = None
            THEN Return(p, "update_product_status", "InputError", None)
            ELSE \E id \in tsn :
                    Goto(p, "update_product_status",
                         [frame[p] EXCEPT !.id = id,
                                          !.status = product_status(frame[p].status)[1]])

\* match Transaction::update_product_status(id, refer, pid, iid, status, ..).await
update_product_status_exec(p) ==
    /\ pc[p] = "update_product_status"
    /\ UNCHANGED << stock, next_id, clock, given >>
    /\ \E updated \in BOOLEAN :
        IF /\ updated
           /\ Exists(frame[p].id)
           /\ HasItem(transactions[frame[p].id][1], frame[p].refer,
                      frame[p].pid, frame[p].iid)
        THEN LET res == Transaction_update_product_status(
                            transactions[frame[p].id][1], frame[p].refer,
                            frame[p].pid, frame[p].iid, frame[p].status)
             IN  /\ transactions' = [transactions EXCEPT ![frame[p].id] = Some(res)]
                 /\ Return(p, "update_product_status", "Ok", Some(res))
        ELSE /\ UNCHANGED transactions
             /\ Return(p, "update_product_status", "InputError", None)

\* -------------------------------------------------------- delete, handlers.rs
delete_call(p, cookie, id) ==
    /\ pc[p] = "idle"
    /\ UNCHANGED << transactions, stock, next_id, clock, given >>
    /\ LET session == cookie_status_wrapper(cookie)
       IN  IF session = None
           THEN Return(p, "delete", "Unauthorized", None)
           ELSE IF ~check_permissions(session[1], "DeleteTransaction")
           THEN Return(p, "delete", "Unauthorized", None)
           ELSE Goto(p, "delete", [NoFrame EXCEPT !.id = id])

delete(p) == \E cookie \in Cookies, id \in TxnIds : delete_call(p, cookie, id)

\* a variant that puts the stock back to what it was before any create
delete_exec_reversing(p) ==
    /\ pc[p] = "delete"
    /\ UNCHANGED << next_id, clock, given >>
    /\ \E deleted \in BOOLEAN :
        IF deleted
        THEN /\ transactions' = [transactions EXCEPT ![frame[p].id] = None]
             /\ stock' = [key \in DOMAIN stock |-> InitialStock]
             /\ Return(p, "delete", "Ok", None)
        ELSE /\ UNCHANGED << transactions, stock >>
             /\ Return(p, "delete", "InputError", None)

\* match Transaction::delete(id, session, db).await
delete_exec(p) ==
    /\ pc[p] = "delete"
    /\ UNCHANGED << stock, next_id, clock, given >>
    /\ \E deleted \in BOOLEAN :
        IF deleted
        THEN /\ transactions' = [transactions EXCEPT ![frame[p].id] = None]
             /\ Return(p, "delete", "Ok", None)
        ELSE /\ UNCHANGED transactions
             /\ Return(p, "delete", "InputError", None)

\* ------------------------------------------------------------- specifications
\* the steps a handler takes once its request has arrived
Step(p) ==
    \/ create_insert(p)
    \/ create_process_intents(p)
    \/ create_fetch_by_id(p)
    \/ update_exec(p)
    \/ update_order_status_fetch(p)
    \/ update_order_status_exec(p)
    \/ update_product_status_fetch(p)
    \/ update_product_status_exec(p)
    \/ delete_exec(p)

Arrive(p) ==
    \/ create(p)
    \/ update(p)
    \/ update_order_status(p)
    \/ update_product_status(p)
    \/ delete(p)

\* requests are numbered in the order they arrive in
Arrived(p) == \A q \in Reqs : q < p => pc[q] # "idle"

Next == \E p \in Reqs : (Arrived(p) /\ Arrive(p)) \/ Step(p)

\* any requests, interleaved at their persistence calls
Spec == Init /\ [][Next]_vars

\* the same, where a handler that has been called runs on to its return
FairSpec == Spec /\ \A p \in Reqs : WF_vars(Step(p))

\* one create request, of any input of at most MaxLines line items, whose stock
\* calls succeed (their failures are explored in Spec)
InitCreate ==
    /\ transactions = [id \in TxnIds |-> None]
    /\ stock = [key \in StoreIds \X VariantCodes |-> InitialStock]
    /\ next_id = 1
    /\ clock = 0
    /\ pc = [p \in Reqs |-> "idle"]
    /\ frame = [p \in Reqs |-> NoFrame]
    /\ result = NoResult
    /\ given \in [cookie : {"admin", "nobody"}, input : {Some(i) : i \in InputsWithin(MaxLines)}]

create_given == create_call(1, given.cookie, given.input[1])

NextCreate ==
    \/ create_given
    \/ create_insert(1)
    \/ create_process_intents_answer(1, TRUE)
    \/ create_fetch_by_id(1)

CreateSpec == InitCreate /\ [][NextCreate]_vars

\* has_permission on its own: any session of at most MaxLevel privileges, asked
\* for any action
InitPerm ==
    /\ transactions = [id \in TxnIds |-> None]
    /\ stock = [key \in StoreIds \X VariantCodes |-> InitialStock]
    /\ next_id = 1
    /\ clock = 0
    /\ pc = [p \in Reqs |-> "idle"]
    /\ frame = [p \in Reqs |-> NoFrame]
    /\ result = NoResult
    /\ given \in [session : [level : Levels(MaxLevel)], permission : Actions]

has_permission_given ==
    /\ pc[1] = "idle"
    /\ pc' = [pc EXCEPT ![1] = "done"]
    /\ result' = [op |-> "has_permission", kind |-> "Ok",
                  value |-> Some(has_permission(given.session, given.permission))]
    /\ UNCHANGED << transactions, stock, next_id, clock, frame, given >>

NextPerm == has_permission_given

PermSpec == InitPerm /\ [][NextPerm]_vars

\* The status handlers on their own.  Two transactions are stored by earlier
\* creates: the first holds an order r1 and an order r2, the second an order r1
\* as well.  The requests, of a session that may modify transactions, set any
\* order status and a line status, by a reference two transactions hold, one a
\* single transaction holds, and one none holds.
StoredOrders ==
    << << Order(HeadOf("r1"), << ItemOf("p2"), ItemOf("p3") >>),
          Order(HeadOf("r2"), << ItemOf("p3") >>) >>,
       << Order(HeadOf("r1"), << ItemOf("p3") >>) >> >>

\* each a sale, paid exactly
StoredInputs ==
    [id \in DOMAIN StoredOrders |->
        [transaction_type |-> "Sale",
         products |-> StoredOrders[id],
         payment |-> PaymentsFor(sum_orders(StoredOrders[id]), 0)]]

StatusReferences == {"r1", "r2", "r9"}

StatusCookies == {"admin"}

InitStatus ==
    /\ transactions = [id \in TxnIds |->
                          IF id \in DOMAIN StoredInputs
                          THEN Some(Transaction_insert(id, StoredInputs[id]))
                          ELSE None]
    /\ stock = [key \in StoreIds \X VariantCodes |-> InitialStock]
    /\ next_id = Len(StoredInputs) + 1
    /\ clock = 0
    /\ pc = [p \in Reqs |-> "idle"]
    /\ frame = [p \in Reqs |-> NoFrame]
    /\ result = NoResult
    /\ given = NoGiven

update_order_status_any(p) ==
    \E cookie \in StatusCookies, refer \in StatusReferences, status \in OrderStatuses :
        update_order_status_call(p, cookie, refer, status)

update_product_status_any(p) ==
    \E cookie \in StatusCookies, refer \in StatusReferences, pid \in ProductIds,
       iid \in InstanceIds, status \in StatusStrings :
        update_product_status_call(p, cookie, refer, pid, iid, status)

NextStatus ==
    \E p \in Reqs :
        \/ Arrived(p) /\ update_order_status_any(p)
        \/ Arrived(p) /\ update_product_status_any(p)
        \/ update_order_status_fetch(p)
        \/ update_order_status_exec(p)
        \/ update_product_status_fetch(p)
        \/ update_product_status_exec(p)

StatusSpec == InitStatus /\ [][NextStatus]_vars

\* update_product_status on its own, from the same two stored transactions: the
\* five status strings the handler knows, and two it does not
AnyStatusStrings ==
    {"picked", "pending", "failed", "uncertain", "processing", "shipped", "Picked"}

update_product_status_any_string(p) ==
    \E cookie \in StatusCookies, refer \in StatusReferences, pid \in ProductIds,
       iid \in InstanceIds, status \in AnyStatusStrings :
        update_product_status_call(p, cookie, refer, pid, iid, status)

NextProductStatus ==
    \E p \in Reqs :
        \/ Arrived(p) /\ update_product_status_any_string(p)
        \/ update_product_status_fetch(p)
        \/ update_product_status_exec(p)

ProductStatusSpec == InitStatus /\ [][NextProductStatus]_vars

\* The discount arithmetic of create on its own: a unit cost in whole currency
\* units, a quantity, any line discount (every percentage from 0 to 100, fixed
\* amounts up to more than the dearest line) and an order discount; either the
\* line discount is applied to the cost, or the total cost of the one-line
\* transaction is computed as create computes it.
Prices == { 100 * n : n \in 0 .. MaxPrice }

Quantities == 0 .. MaxQuantity

FixedAmounts == { 50 * n : n \in 0 .. (2 * MaxPrice * MaxQuantity + 1) }

LineDiscounts ==
    { Percentage(k) : k \in 0 .. 100 } \cup { Fixed(f) : f \in FixedAmounts }

OrderDiscounts ==
    { Percentage(0), Percentage(15), Percentage(100), Fixed(0), Fixed(50),
      Fixed(100 * MaxPrice * MaxQuantity + 50) }

InitDiscount ==
    /\ transactions = [id \in TxnIds |-> None]
    /\ stock = [key \in StoreIds \X VariantCodes |-> InitialStock]
    /\ next_id = 1
    /\ clock = 0
    /\ pc = [p \in Reqs |-> "idle"]
    /\ frame = [p \in Reqs |-> NoFrame]
    /\ result = NoResult
    /\ given \in [product_cost : Prices, quantity : Quantities,
                   discount : LineDiscounts, order_discount : OrderDiscounts]

\* the transaction of one order of one line item that `given` describes
GivenTransaction ==
    [transaction_type |-> "Sale",
     products |-> << [Order(HeadOf("r1"),
                            << [ItemOf("p2") EXCEPT
                                   !.product_cost = given.product_cost,
                                   !.quantity = given.quantity,
                                   !.discount = given.discount] >>)
                      EXCEPT !.discount = given.order_discount] >>,
     payment |-> << >>]

\* apply_discount(product.discount, product.product_cost * product.quantity)
apply_discount_given ==
    /\ pc[1] = "idle"
    /\ pc' = [pc EXCEPT ![1] = "done"]
    /\ result' = [op |-> "apply_discount", kind |-> "Ok",
                  value |-> Some(apply_discount(given.discount,
                                                given.product_cost * given.quantity))]
    /\ UNCHANGED << transactions, stock, next_id, clock, frame, given >>

total_cost_given ==
    /\ pc[1] = "idle"
    /\ pc' = [pc EXCEPT ![1] = "done"]
    /\ result' = [op |-> "total_cost", kind |-> "Ok",
                  value |-> Some(total_cost(GivenTransaction))]
    /\ UNCHANGED << transactions, stock, next_id, clock, frame, given >>

NextDiscount == apply_discount_given \/ total_cost_given

DiscountSpec == InitDiscount /\ [][NextDiscount]_vars

\* ===================================================================== claims
\* What the specification says of a request, stated apart from the handlers.
Range(seq) == { seq[i] : i \in DOMAIN seq }

SumSeq(seq) ==
    LET partial[i \in 0 .. Len(seq)] == IF i = 0 THEN 0 ELSE partial[i - 1] + seq[i]
    IN  partial[Len(seq)]

\* DiscountCalculator.apply of the specification
Discounted(discount, amount) ==
    IF discount.kind = "Percentage"
    THEN (amount * (100 - discount.value)) \div 100
    ELSE IF amount > discount.value THEN amount - discount.value ELSE 0

\* sum over orders of the order discount applied to the sum over its line items
\* of the line discount applied to unit cost * quantity
SpecTotalCost(input) ==
    SumSeq([o \in DOMAIN input.products |->
        Discounted(input.products[o].discount,
            SumSeq([k \in DOMAIN input.products[o].products |->
                Discounted(input.products[o].products[k].discount,
                           input.products[o].products[k].product_cost
                           * input.products[o].products[k].quantity)]))])

SpecTotalPaid(input) ==
    SumSeq([i \in DOMAIN input.payment |-> input.payment[i].amount.quantity])

\* the session of the cookie holds `action` with authority >= 1
SpecAuthorized(cookie, action) ==
    /\ cookie \in DOMAIN SessionTable
    /\ LET level == SessionTable[cookie].level
           matches == { i \in DOMAIN level : level[i].action = action }
           first == CHOOSE i \in matches : \A j \in matches : i <= j
       IN  matches # {} /\ level[first].authority >= 1

InFlightCreate(p) == pc[p] \in {"insert", "process_intents", "fetch_by_id"}

\* the line items of an input, numbered order by order and item by item
LinesBefore(input, o) ==
    SumSeq([i \in 1 .. o - 1 |-> Len(input.products[i].products)])

LineCount(input) == LinesBefore(input, Len(input.products) + 1)

LinePlaces(input) ==
    { << o, k >> \in (DOMAIN input.products) \X (1 .. LineCount(input)) :
        k \in DOMAIN input.products[o].products }

LineAt(input, n) ==
    CHOOSE place \in LinePlaces(input) : LinesBefore(input, place[1]) + place[2] = n

\* the stock once the n-th line item of the input has been debited (a sale) or
\* credited (a return) at the origin of its order
StockAfterLine(input, n) ==
    LET order == input.products[LineAt(input, n)[1]]
        item == order.products[LineAt(input, n)[2]]
    IN  [key \in DOMAIN stock |->
            IF key = << order.origin.store_id, item.product_code >>
            THEN IF input.transaction_type = "Sale"
                 THEN stock[key] - item.quantity
                 ELSE stock[key] + item.quantity
            ELSE stock[key]]

Untouched ==
    /\ transactions' = transactions
    /\ stock' = stock
    /\ next_id' = next_id

\* C1: in create, a stock delta is applied only by a request whose own insert
\* has succeeded before: whenever the stock changes, and whenever an intent has
\* been handed to the stock, the request doing so holds the id of its insert.
C1_StockAfterInsert ==
    /\ [](\A p \in Reqs : frame[p].outcomes # << >> =>
                            frame[p].last_insert_id \in 1 .. next_id - 1)
    /\ [][stock' # stock =>
            \E p \in Reqs :
                /\ pc[p] = "process_intents"
                /\ frame[p].last_insert_id \in 1 .. next_id - 1
                /\ Len(frame'[p].outcomes) = Len(frame[p].outcomes) + 1]_vars

C1_Witness ==
    \E p \in Reqs :
        /\ pc[p] = "process_intents"
        /\ "applied" \in Range(frame[p].outcomes)
        /\ stock # [key \in StoreIds \X VariantCodes |-> InitialStock]

\* C2: create called with an authorized session and |paid - cost| > 0.1 returns
\* the validation error in that very step, with the transactions and every
\* stock quantity as before, and the request does nothing afterwards.
C2_MismatchRejected ==
    /\ [][\A p \in Reqs, cookie \in Cookies, input \in Inputs :
            ( /\ pc[p] = "idle" /\ pc'[p] # "idle"
              /\ SpecAuthorized(cookie, "CreateTransaction")
              /\ Abs(SpecTotalPaid(input) - SpecTotalCost(input)) > Tolerance
              /\ create_call(p, cookie, input) )
            => ( /\ pc'[p] = "done"
                 /\ result'.kind = "StandardError"
                 /\ frame'[p] = NoFrame
                 /\ Untouched )]_vars
    /\ [][\A p \in Reqs : pc[p] = "done" => pc'[p] = "done"]_vars

C2_Witness ==
    result.op = "create" /\ result.kind = "StandardError"

\* C3: when the insert of create answers Err, create returns an error in that
\* step, nothing is stored, no stock quantity changes and no intent is processed.
C3_InsertFailureAborts ==
    [][\A p \in Reqs :
        create_insert_answer(p, FALSE)
        => ( /\ pc'[p] = "done"
             /\ result'.kind = "InputError"
             /\ frame[p].outcomes = << >>
             /\ Untouched )]_vars

C3_Witness ==
    result.op = "create" /\ result.kind = "InputError"

\* the request is turned away in the step it arrives in, and nothing is touched
Refused(p, op) ==
    /\ pc'[p] = "done"
    /\ result' = [op |-> op, kind |-> "Unauthorized", value |-> None]
    /\ frame'[p] = NoFrame
    /\ Untouched

\* C4: create needs CreateTransaction, update, update_order_status and
\* update_product_status need ModifyTransaction, delete needs DeleteTransaction;
\* a request whose session lacks it (or that has no session) returns
\* Unauthorized before any persistence call, with the transactions and the stock
\* unchanged.
C4_AuthorityFirst ==
    [][\A p \in { q \in Reqs : pc[q] = "idle" /\ pc'[q] # "idle" },
          cookie \in Cookies :
        /\ \A input \in Inputs :
            create_call(p, cookie, input)
                /\ ~SpecAuthorized(cookie, "CreateTransaction")
            => Refused(p, "create")
        /\ \A id \in TxnIds, input \in UpdateInputs :
            update_call(p, cookie, id, input)
                /\ ~SpecAuthorized(cookie, "ModifyTransaction")
            => Refused(p, "update")
        /\ \A refer \in References, status \in RequestedStatuses :
            update_order_status_call(p, cookie, refer, status)
                /\ ~SpecAuthorized(cookie, "ModifyTransaction")
            => Refused(p, "update_order_status")
        /\ \A refer \in References, pid \in ProductIds, iid \in InstanceIds,
              status \in StatusStrings :
            update_product_status_call(p, cookie, refer, pid, iid, status)
                /\ ~SpecAuthorized(cookie, "ModifyTransaction")
            => Refused(p, "update_product_status")
        /\ \A id \in TxnIds :
            delete_call(p, cookie, id)
                /\ ~SpecAuthorized(cookie, "DeleteTransaction")
            => Refused(p, "delete")]_vars

\* a stored transaction is there when a request to delete it is turned away
C4_Witness ==
    /\ result.op = "delete"
    /\ result.kind = "Unauthorized"
    /\ \E id \in TxnIds : Exists(id)

\* C5: create called with an authorized session and total_paid = total_cost goes
\* on to the insert and, from there, always returns (a request is issued once,
\* so from some point on no create is in flight). An insert that answers Ok
\* stores exactly one new transaction, under a fresh id; each stock call that
\* answers Ok applies the next line item of the input, once; and when the
\* re-fetch answers Ok create returns Ok with the transaction stored under the
\* id of its insert, every line item having been handed to the stock once.
C5_CreateSucceeds ==
    /\ [][\A p \in Reqs, cookie \in Cookies, input \in Inputs :
            ( /\ pc[p] = "idle" /\ pc'[p] # "idle"
              /\ SpecAuthorized(cookie, "CreateTransaction")
              /\ SpecTotalPaid(input) = SpecTotalCost(input)
              /\ create_call(p, cookie, input) )
            => pc'[p] = "insert" /\ frame'[p].new_transaction = Some(input)]_vars
    /\ <>[](\A p \in Reqs : ~InFlightCreate(p))
    /\ [][\A p \in Reqs :
            create_insert_answer(p, TRUE)
            => /\ frame'[p].last_insert_id = next_id
               /\ next_id' = next_id + 1
               /\ ~Exists(next_id)
               /\ transactions' = [transactions EXCEPT ![next_id] =
                    Some([id |-> next_id,
                          transaction_type |-> frame[p].new_transaction[1].transaction_type,
                          products |-> frame[p].new_transaction[1].products,
                          payment |-> frame[p].new_transaction[1].payment])]
               /\ pc'[p] # "done"]_vars
    /\ [][\A p \in Reqs :
            ( /\ create_process_intents_answer(p, TRUE)
              /\ pc'[p] = "process_intents" )
            => LET input == frame[p].new_transaction[1]
                   n == Len(frame[p].outcomes) + 1
               IN  /\ n \in 1 .. LineCount(input)
                   /\ stock' = StockAfterLine(input, n)
                   /\ frame'[p].outcomes = Append(frame[p].outcomes, "applied")
                   /\ transactions' = transactions]_vars
    /\ [][\A p \in Reqs :
            ( /\ create_fetch_by_id_answer(p, TRUE)
              /\ Exists(frame[p].last_insert_id) )
            => /\ pc'[p] = "done"
               /\ result' = [op |-> "create", kind |-> "Ok",
                             value |-> transactions[frame[p].last_insert_id]]
               /\ result'.value[1].id = frame[p].last_insert_id
               /\ Len(frame[p].outcomes) = LineCount(frame[p].new_transaction[1])
               /\ Untouched]_vars

C5_Witness ==
    /\ result.op = "create"
    /\ result.kind = "Ok"
    /\ result.value # None
    /\ \E p \in Reqs : pc[p] = "done"
    /\ stock # [key \in StoreIds \X VariantCodes |-> InitialStock]

\* C6: the intents create derives are one per line item of every order of the
\* input, in order-then-line-item sequence, and the intent of a line item
\* carries its variant code and SKU, the store code and store id of the origin
\* of its order, and the type of the transaction.
C6_OneIntentPerLine ==
    InFlightCreate(1) =>
        LET input == given.input[1]
            intents == frame[1].intents
        IN  /\ Len(intents) = LineCount(input)
            /\ \A o \in DOMAIN input.products :
                \A k \in DOMAIN input.products[o].products :
                    LET order == input.products[o]
                        item == order.products[k]
                        intent == intents[LinesBefore(input, o) + k]
                    IN  /\ intent.variant_code = item.product_code
                        /\ intent.product_sku = item.product_sku
                        /\ intent.transaction_store_code = order.origin.store_code
                        /\ intent.transaction_store_id = order.origin.store_id
                        /\ intent.transaction_type = input.transaction_type

\* two orders, one of them holding the same variant on two line items
C6_Witness ==
    /\ InFlightCreate(1)
    /\ Len(given.input[1].products) >= 2
    /\ \E o \in DOMAIN given.input[1].products :
        LET products == given.input[1].products[o].products
        IN  /\ given.input[1].products[o].origin # given.input[1].products[o].destination
            /\ \E j, k \in DOMAIN products :
                j < k /\ products[j].product_code = products[k].product_code

C8_TotalsAsSpecified ==
    LET cost == SpecTotalCost(given.input[1])
        paid == SpecTotalPaid(given.input[1])
    IN  /\ InFlightCreate(1) =>
            /\ frame[1].total_cost = cost
            /\ frame[1].total_paid = paid
            /\ Abs(paid - cost) <= Tolerance
        /\ result.kind = "StandardError" => Abs(paid - cost) > Tolerance

\* an order with a fixed order discount over two discounted line items, and
\* more than one payment
C8_Witness ==
    /\ InFlightCreate(1)
    /\ Len(given.input[1].payment) >= 2
    /\ \E o \in DOMAIN given.input[1].products :
        /\ given.input[1].products[o].discount.kind = "Fixed"
        /\ Len(given.input[1].products[o].products) >= 2
        /\ \E k \in DOMAIN given.input[1].products[o].products :
            given.input[1].products[o].products[k].discount.value > 0

AbsDifference(input) ==
    LET paid == SumSeq([i \in DOMAIN input.payment |-> input.payment[i].amount.quantity])
        cost == SpecTotalCost(input)
    IN  IF paid >= cost THEN paid - cost ELSE cost - paid

\* C9: an authorized create passes payment validation exactly when
\* |sum(payment.amount) - total_cost| <= 0.1, and every transaction stored by
\* create is within that tolerance.
C9_ToleranceExact ==
    /\ ( given.cookie = "admin" /\ pc[1] # "idle" ) =>
        ( ( result.op = "create" /\ result.kind = "StandardError" )
          <=> AbsDifference(given.input[1]) > Tolerance )
    /\ \A id \in TxnIds :
        Exists(id) =>
            AbsDifference([products |-> transactions[id][1].products,
                           payment |-> transactions[id][1].payment]) <= Tolerance

\* a transaction stored with a payment exactly the tolerance away from the cost
C9_Witness ==
    \E id \in TxnIds :
        /\ Exists(id)
        /\ AbsDifference([products |-> transactions[id][1].products,
                          payment |-> transactions[id][1].payment]) = Tolerance

\* C10: when the application of an intent has failed after the insert, create
\* returns an error that is none of Unauthorized, the validation error, the
\* input error and the database error (and never Ok).
C10_ReconciliationSurfaced ==
    [][\A p \in Reqs :
        ( /\ pc[p] = "fetch_by_id"
          /\ pc'[p] = "done"
          /\ "failed" \in Range(frame[p].outcomes) )
        => result'.kind \notin
              {"Ok", "Unauthorized", "StandardError", "InputError", "DbError"}]_vars

\* C11: has_permission(action) is true exactly when the action is
\* GenerateTemplateContent or the first entry of the privilege list naming the
\* action has authority >= 1; with no entry naming it the authority counts as
\* 0, so the session of no privileges is granted GenerateTemplateContent and
\* refused everything else.
C11_FirstMatchDecides ==
    result.op = "has_permission" =>
        LET level == given.session.level
            matches == { i \in DOMAIN level : level[i].action = given.permission }
            first == CHOOSE i \in matches : \A j \in matches : i <= j
            authority == IF matches = {} THEN 0 ELSE level[first].authority
        IN  /\ result.value[1] =
                    (given.permission = "GenerateTemplateContent" \/ authority >= 1)
            /\ level = << >> =>
                    result.value[1] = (given.permission = "GenerateTemplateContent")

\* a first entry of authority 0 shadows a later entry of authority 1
C11_Witness ==
    /\ result.op = "has_permission"
    /\ given.permission = "ModifyTransaction"
    /\ given.session.level = << Access("ModifyTransaction", 0),
                                 Access("ModifyTransaction", 1) >>
    /\ result.value = Some(FALSE)

\* ---------------------------------------------------------------------------
\* the order of a stored transaction at place o, before and after a step
OrderBefore(id, o) == transactions[id][1].products[o]

OrderAfter(id, o) == transactions'[id][1].products[o]

\* the step is request p's update_order_status returning Ok for transaction id
SetsOrderStatus(p, id) ==
    /\ pc[p] = "update_order_status"
    /\ pc'[p] = "done"
    /\ result'.kind = "Ok"
    /\ frame[p].id = id

C13_NoTransitionGuard ==
    \A p \in Reqs :
        /\ pc[p] = "update_order_status"
        /\ Exists(frame[p].id)
        /\ HasOrder(transactions[frame[p].id][1], frame[p].refer)
        => ENABLED ( /\ update_order_status_exec(p)
                     /\ result'.kind = "Ok"
                     /\ \A o \in DOMAIN transactions[frame[p].id][1].products :
                            OrderBefore(frame[p].id, o).reference = frame[p].refer
                            => OrderAfter(frame[p].id, o).status = frame[p].status )

\* an order that was set to Failed has been set to Queued again
C13_Witness ==
    /\ result.op = "update_order_status"
    /\ result.kind = "Ok"
    /\ \E id \in TxnIds :
        /\ Exists(id)
        /\ \E o \in DOMAIN transactions[id][1].products :
            /\ transactions[id][1].products[o].status = "Queued"
            /\ Len(transactions[id][1].products[o].status_history) = 3
            /\ transactions[id][1].products[o].status_history[2].status = "Failed"

\* ---------------------------------------------------------------------------
\* C14: delete removes the record and leaves the stock alone.  In the step in
\* which a delete request returns, every stock quantity is what it was, no
\* transaction is added and no request gains an intent; when it returns Ok the
\* record of that id is gone and every other record is what it was, and when it
\* returns an error every record is what it was.
C14_DeleteKeepsStock ==
    [][ \A p \in Reqs :
            pc[p] = "delete" /\ pc'[p] = "done" =>
                /\ stock' = stock
                /\ next_id' = next_id
                /\ \A q \in Reqs \ {p} : frame'[q] = frame[q]
                /\ result'.op = "delete"
                /\ IF result'.kind = "Ok"
                   THEN /\ transactions'[frame[p].id] = None
                        /\ \A id \in TxnIds \ {frame[p].id} :
                               transactions'[id] = transactions[id]
                   ELSE transactions' = transactions ]_vars

\* a transaction whose deltas were applied has been deleted, and the stock is
\* still what the create left
C14_Witness ==
    /\ result.op = "delete"
    /\ result.kind = "Ok"
    /\ next_id = 2
    /\ transactions[1] = None
    /\ stock[<< LocA.store_id, "v2" >>] = InitialStock - 2
    /\ stock[<< LocA.store_id, "v1" >>] = InitialStock - 3

\* ---------------------------------------------------------------------------
\* the change of the quantity at `key` that request p has applied so far: of
\* each of its intents that was applied to that key, the quantity, taken off
\* by a sale and added otherwise
AppliedTo(p, key) ==
    SumSeq([i \in DOMAIN frame[p].outcomes |->
        IF /\ frame[p].outcomes[i] = "applied"
           /\ frame[p].intents[i].transaction_store_id = key[1]
           /\ frame[p].intents[i].variant_code = key[2]
        THEN IF frame[p].intents[i].transaction_type = "Sale"
             THEN 0 - frame[p].intents[i].quantity_to_transact
             ELSE frame[p].intents[i].quantity_to_transact
        ELSE 0])

\* C15: no update is lost between concurrent creates.  While every request is
\* still in flight (none has returned), whatever the order in which their
\* intents were applied, the quantity of every (store, variant) is the initial
\* quantity plus the sum of the deltas the requests have applied to it.
C15_NoLostUpdate ==
    (\A p \in Reqs : pc[p] # "done") =>
        \A key \in StoreIds \X VariantCodes :
            stock[key] = InitialStock
                         + SumSeq([p \in Reqs |-> AppliedTo(p, key)])

\* two creates have both applied their intents to the same two keys
C15_Witness ==
    /\ pc[1] = "fetch_by_id"
    /\ pc[2] = "fetch_by_id"
    /\ frame[1].outcomes = << "applied", "applied" >>
    /\ frame[2].outcomes = << "applied", "applied" >>
    /\ frame[1].intents[1].transaction_store_id = frame[2].intents[1].transaction_store_id
    /\ frame[1].intents[1].variant_code = frame[2].intents[1].variant_code
    /\ stock[<< LocA.store_id, "v2" >>] = InitialStock - 4
    /\ stock[<< LocA.store_id, "v1" >>] = InitialStock - 6

\* ---------------------------------------------------------------------------
\* C16: the discount is total and bounded.  For a price p >= 0, a percentage k
\* from 0 to 100 yields exactly p * (100 - k) / 100, which is at most p and not
\* negative; a fixed amount f yields p - f when that is positive and 0
\* otherwise, never a negative value; and the total cost computed from a
\* non-negative unit cost and quantity is never negative.
C16_DiscountBounded ==
    LET p == given.product_cost * given.quantity
    IN  /\ result.op = "apply_discount" =>
            /\ result.kind = "Ok"
            /\ given.discount.kind = "Percentage" =>
                /\ 100 * result.value[1] = p * (100 - given.discount.value)
                /\ result.value[1] <= p
                /\ result.value[1] >= 0
            /\ given.discount.kind = "Fixed" =>
                /\ result.value[1] >= 0
                /\ result.value[1] >= p - given.discount.value
                /\ result.value[1] \in {0, p - given.discount.value}
        /\ result.op = "total_cost" =>
            /\ result.value[1] >= 0
            /\ result.value[1] <= p

\* a fixed amount greater than the price has been taken off, leaving nothing
C16_Witness ==
    /\ result.op = "apply_discount"
    /\ given.discount = Fixed(250)
    /\ given.product_cost = 100
    /\ given.quantity = 2
    /\ result.value = Some(0)

\* ---------------------------------------------------------------------------
\* the pick status each recognized status string stands for
SpecPickStatus ==
    [picked |-> "Picked", pending |-> "Pending", failed |-> "Failed",
     uncertain |-> "Uncertain", processing |-> "Processing"]

\* the line item at place i of the order at place o is the one the request
\* addresses
Addressed(p, id, o, i) ==
    /\ id = frame[p].id
    /\ transactions[id][1].products[o].reference = frame[p].refer
    /\ transactions[id][1].products[o].products[i].id = frame[p].pid
    /\ transactions[id][1].products[o].products[i].iid = frame[p].iid

\* C18: update_product_status validates the status string before it changes
\* anything.  Once the transaction of the reference is found: a string other
\* than picked, pending, failed, uncertain and processing ends the request with
\* an input error and every transaction as it was; each of the five goes on as
\* the pick status of its name, nothing changed yet.  The call that follows,
\* when it succeeds, leaves the addressed line item with that pick status,
\* whatever status it had, and every other line item, order field and
\* transaction as it was; when it fails nothing is changed.
C18_StatusValidatedFirst ==
    [][ \A p \in Reqs :
            /\ ( /\ pc[p] = "product_fetch_by_ref"
                 /\ pc'[p] # "product_fetch_by_ref"
                 /\ result'.kind # "Panic" \/ pc'[p] # "done" ) =>
                    /\ transactions' = transactions
                    /\ IF frame[p].status \in DOMAIN SpecPickStatus
                       THEN /\ pc'[p] = "update_product_status"
                            /\ frame'[p].status = SpecPickStatus[frame[p].status]
                            /\ frame'[p].status \in PickStatuses
                       ELSE /\ pc'[p] = "done"
                            /\ result' = [op |-> "update_product_status",
                                          kind |-> "InputError", value |-> None]
            /\ ( pc[p] = "update_product_status" /\ pc'[p] = "done" ) =>
                    IF result'.kind = "Ok"
                    THEN \A id \in TxnIds :
                            /\ (transactions'[id] = None) = (transactions[id] = None)
                            /\ Exists(id) =>
                                /\ DOMAIN transactions'[id][1].products
                                       = DOMAIN transactions[id][1].products
                                /\ \A o \in DOMAIN transactions[id][1].products :
                                    /\ DOMAIN OrderAfter(id, o).products
                                           = DOMAIN OrderBefore(id, o).products
                                    /\ [OrderAfter(id, o) EXCEPT !.products = << >>]
                                           = [OrderBefore(id, o) EXCEPT !.products = << >>]
                                    /\ \A i \in DOMAIN OrderBefore(id, o).products :
                                        IF Addressed(p, id, o, i)
                                        THEN OrderAfter(id, o).products[i]
                                                = [OrderBefore(id, o).products[i]
                                                      EXCEPT !.status = frame[p].status]
                                        ELSE OrderAfter(id, o).products[i]
                                                = OrderBefore(id, o).products[i]
                    ELSE transactions' = transactions ]_vars

\* two requests have been served: a line item that was created pending is
\* failed, the other line item of its order and the other transaction are as
\* they were stored
C18_Witness ==
    /\ result.op = "update_product_status"
    /\ result.kind = "Ok"
    /\ clock = 0
    /\ \A p \in 1 .. 2 : pc[p] = "done"
    /\ transactions[2] = Some(Transaction_insert(2, StoredInputs[2]))
    /\ transactions[1][1].products[1].products[2].status = "Failed"
    /\ transactions[1][1].products[1].products[1].status = "Pending"

\* ---------------------------------------------------------------------------
\* C19: a reference that matches no stored transaction is answered with a
\* NotFound error.  When the handler of update_order_status or of
\* update_product_status, called by an authorized session, looks up a reference
\* that no stored transaction holds, the request returns an error of the
\* NotFound category and every transaction, the stock and the clock are as they
\* were.
C19_NotFoundReturned ==
    [][ \A p \in Reqs :
            /\ pc[p] \in {"order_fetch_by_ref", "product_fetch_by_ref"}
            /\ pc'[p] # pc[p]
            /\ \A id \in TxnIds : Exists(id) => ~HasOrder(transactions[id][1], frame[p].refer)
            => /\ pc'[p] = "done"
               /\ result'.kind = "NotFound"
               /\ transactions' = transactions
               /\ stock' = stock
               /\ clock' = clock ]_vars

\* ---------------------------------------------------------------------------
\* C20: which errors of create mean that nothing was mutated.  A create that
\* returns before or at the insert returns Unauthorized, the validation error
\* or the input error, and has changed neither a transaction nor the stock.  A
\* create that returns after the insert has stored its transaction and has
\* processed every intent; when it returns an error then, the error is the
\* database error, and the step takes back nothing: the transactions, the
\* stock and the id counter are what they were before it.
C20_ErrorAfterInsertKeepsAll ==
    [][ \A p \in Reqs :
            /\ ( pc[p] \in {"idle", "insert"} /\ pc'[p] = "done"
                 /\ result'.op = "create" ) =>
                    /\ result'.kind \in {"Unauthorized", "StandardError", "InputError"}
                    /\ frame[p].outcomes = << >>
                    /\ transactions' = transactions
                    /\ stock' = stock
                    /\ next_id' = next_id
            /\ ( pc[p] \in {"process_intents", "fetch_by_id"} /\ pc'[p] = "done"
                 /\ result'.kind # "Ok" ) =>
                    /\ result'.kind = "DbError"
                    /\ frame[p].last_insert_id \in 1 .. (next_id - 1)
                    /\ Len(frame[p].outcomes) = LineCount(frame[p].new_transaction[1])
                    /\ transactions' = transactions
                    /\ stock' = stock
                    /\ next_id' = next_id ]_vars

\* a create has returned the database error, its transaction is stored and its
\* deltas are applied; the same request, sent again, has stored a second
\* transaction of the same body and applied the deltas a second time
C20_Witness ==
    /\ result = [op |-> "create", kind |-> "DbError", value |-> None]
    /\ pc[1] = "done"
    /\ pc[2] = "fetch_by_id"
    /\ Exists(1)
    /\ Exists(2)
    /\ transactions[1][1].products = transactions[2][1].products
    /\ transactions[1][1].payment = transactions[2][1].payment
    /\ frame[2].outcomes = << "applied", "applied" >>
    /\ stock[<< LocA.store_id, "v2" >>] = InitialStock - 4
    /\ stock[<< LocA.store_id, "v1" >>] = InitialStock - 6

\* ---------------------------------------------------------------------------
\* the stored transactions that hold an order of that reference
Matching(refer) ==
    { id \in TxnIds :
        /\ transactions[id] # None
        /\ \E o \in DOMAIN transactions[id][1].products :
               transactions[id][1].products[o].reference = refer }

\* C21: a status update addressed by reference changes at most one
\* transaction.  The lookup of update_order_status and of update_product_status
\* changes no transaction and goes on with one transaction that holds the
\* reference; the call that follows changes no transaction but that one,
\* whatever other transactions hold the same reference; and no step of either
\* operation changes more than one transaction.
C21_OneTransactionChanged ==
    [][ /\ Cardinality({ id \in TxnIds : transactions'[id] # transactions[id] }) <= 1
        /\ \A p \in Reqs :
            /\ ( /\ pc[p] \in {"order_fetch_by_ref", "product_fetch_by_ref"}
                 /\ pc'[p] # pc[p] ) =>
                    /\ transactions' = transactions
                    /\ pc'[p] # "done" => frame'[p].id \in Matching(frame[p].refer)
            /\ ( /\ pc[p] \in {"update_order_status", "update_product_status"}
                 /\ pc'[p] = "done" ) =>
                    /\ \A id \in TxnIds \ {frame[p].id} :
                           transactions'[id] = transactions[id]
                    /\ result'.kind = "Ok" =>
                           /\ frame[p].id \in Matching(frame[p].refer)
                           /\ result'.value = transactions'[frame[p].id] ]_vars

\* both stored transactions hold an order r1; one request has set r1 to
\* Fulfilled, in the first transaction alone, and the second transaction is
\* as it was stored
C21_Witness ==
    /\ result.op = "update_order_status"
    /\ result.kind = "Ok"
    /\ pc[1] = "done"
    /\ pc[2] = "idle"
    /\ transactions[1][1].products[1].reference = "r1"
    /\ transactions[1][1].products[1].status = "Fulfilled"
    /\ transactions[2] = Some(Transaction_insert(2, StoredInputs[2]))
    /\ transactions[2][1].products[1].reference = "r1"
    /\ transactions[2][1].products[1].status = "Queued"
====
